---- MODULE Spec2Model ----
(***************************************************************************)
(* State-machine model of the MCP-ROBOT planning / verification /          *)
(* execution pipeline (src/mcp_robot/pipeline.py and the tiers it calls).  *)
(*                                                                         *)
(* Units.  Joint angles are integers in micro-radians (the mapper rounds   *)
(* every IK output to 6 decimals, so they are exact).  Durations are in    *)
(* milliseconds, payload in 0.1 kg, base velocity in 0.1 m/s, force in     *)
(* 0.1 N, the ZMP score in 1/10000.  A latent value l in [0,1) is the      *)
(* integer 2560*l (so that k/256 and 0.1 are both exact).                  *)
(*                                                                         *)
(* Hashes.  StableHasher.sha256_json is modelled as injective: a digest    *)
(* is the very record that is hashed.                                      *)
(***************************************************************************)
EXTENDS Integers, Sequences, FiniteSets, TLC

VARIABLES
    active_plans,       \* pipeline.active_plans: plan_id -> TaskPlan
    execution_results,  \* pipeline.execution_results: exec_id -> result record
    twin,               \* pipeline.kinematic_sim (KinematicSimulator fields)
    mode,               \* pipeline.tier6_bridge.mode
    lock,               \* pipeline.lock: NoCall, or the call suspended inside T6
    wall,               \* time.time()
    frozen,             \* global_clock._frozen_time
    ret,                \* what the latest finished call returned, and how
    active_plans2,      \* active_plans of a second, freshly constructed pipeline
    errored,            \* history: the exec id most recently answered with ERROR
    waiters             \* the calls waiting at `async with self.lock`, and the last admitted

vars == <<active_plans, execution_results, twin, mode, lock, wall, frozen, ret,
          active_plans2, errored, waiters>>

(***************************************************************************)
(* Bounds of the model.                                                    *)
(***************************************************************************)
MaxCalls == 4       \* process_task / execute_chunk calls in one behaviour
MaxTime == 1        \* the wall clock runs 0..MaxTime
MaxWaiting == 2     \* calls waiting for the pipeline mutex at one time
MaxPlans == 2       \* plans stored in active_plans

(***************************************************************************)
(* Program constants.                                                      *)
(***************************************************************************)
Tolerance == 500000         \* 0.5 rad
LimitForce == 1000          \* 100.0 N
ZmpThreshold == 4000        \* 0.4
VelPenalty == 400           \* 0.4 per m/s, i.e. 400/10000 per 0.1 m/s
PayloadPenalty == 25        \* 0.05 * 0.5 per kg, i.e. 25/10000 per 0.1 kg
ChunkDurationMs == 1667     \* 50/30 s, reported duration of a chunk
FrozenAt == 123456789       \* the value the tests freeze the clock at

NoValue == "None"
NoTime == -1                \* None where a float is expected
NoCall == [op |-> "none"]
NoWaiters == [pending |-> <<>>, admitted |-> NoCall]
Modes == {"SIM", "HARDWARE"}
Payloads == {0, 200}        \* update_payload arguments: 0 kg, 20 kg
BaseVels == {0, 30}         \* update_base_velocity arguments: 0 m/s, 3 m/s

JointNames == <<"joint_1", "joint_2", "joint_3", "joint_4", "joint_5", "joint_6", "joint_7">>

JointLimits ==
    [n \in {JointNames[i] : i \in 1..7} |->
        CASE n = "joint_2" -> <<-2000000, 2000000>>
          [] n = "joint_7" -> <<-6280000, 6280000>>
          [] OTHER -> <<-3140000, 3140000>>]

DefaultLimit == <<-3140000, 3140000>>

Abs(x) == IF x < 0 THEN -x ELSE x
Max(a, b) == IF a >= b THEN a ELSE b
Min(a, b) == IF a <= b THEN a ELSE b
Range(s) == {s[i] : i \in 1..Len(s)}

RECURSIVE Concat(_)
Concat(ss) == IF ss = <<>> THEN <<>> ELSE Head(ss) \o Concat(Tail(ss))

RECURSIVE SumSeq(_)
SumSeq(s) == IF s = <<>> THEN 0 ELSE Head(s) + SumSeq(Tail(s))

(***************************************************************************)
(* Determinism kernel.                                                     *)
(***************************************************************************)
\* Clock.now(): the frozen value when frozen, else wall time.
Now == IF frozen # NoTime THEN frozen ELSE wall

(***************************************************************************)
(* Inputs.  An instruction is its sequence of words; a robot-state         *)
(* snapshot is (joint_names, joint_positions) with equal lengths.          *)
(***************************************************************************)
Instructions == {<<"place">>, <<"xyz">>}
Perceptions == {"stable_frame"}
ZeroSnap == [joint_names |-> JointNames, joint_positions |-> <<0, 0, 0, 0, 0, 0, 0>>]
EmptySnap == [joint_names |-> <<>>, joint_positions |-> <<>>]
Snapshots == {ZeroSnap, EmptySnap}

\* sum(ord(c) for c in word)
WordOrd(w) ==
    CASE w = "place" -> 517
      [] w = "xyz" -> 363
      [] w = "Place" -> 485
      [] w = "XYZ" -> 267
      [] w = "unknown" -> 778
      [] w = "pick" -> 423
      [] w = "up" -> 229
      [] w = "the" -> 321
      [] w = "apple" -> 530
      [] OTHER -> 0

\* str.lower() on the words of the vocabulary
Lower(w) ==
    CASE w = "Place" -> "place"
      [] w = "XYZ" -> "xyz"
      [] OTHER -> w

\* RobotStateSnapshot.to_ordered_dict: zip(joint_names, joint_positions)
ToOrderedDict(snap) ==
    [n \in Range(snap.joint_names) |->
        snap.joint_positions[CHOOSE i \in 1..Len(snap.joint_names) :
            /\ snap.joint_names[i] = n
            /\ \A j \in (i+1)..Len(snap.joint_names) : snap.joint_names[j] # n]]

(***************************************************************************)
(* Tier 1: task decomposer.                                                *)
(***************************************************************************)
ActionKeywords == <<"pick", "place", "move">>

ActionMap(k) ==
    CASE k = "pick" -> <<"walk_to", "scan_workspace", "grasp_approach", "grasp_close", "lift">>
      [] k = "place" -> <<"walk_to", "release">>
      [] k = "move" -> <<"grasp_approach", "grasp_close", "lift", "move_to", "release">>

\* `k in w` for a keyword k and a lowercased word w of the vocabulary
SubstringOf(k, w) ==
    \/ w = k
    \/ k = "move" /\ w = "remove"

\* `keyword in instruction_lower`: a substring test; a keyword has no space
\* in it, so it occurs in the instruction iff it occurs in one of its words
Contains(instr, k) == \E i \in 1..Len(instr) : SubstringOf(k, Lower(instr[i]))

GetDuration(t) ==
    CASE t = "walk_to" -> 4000
      [] t = "grasp_approach" -> 2000
      [] t = "grasp_close" -> 500
      [] t = "lift" -> 1000
      [] t = "release" -> 500
      [] t = "scan_workspace" -> 1000
      [] t = "idle" -> 0
      [] OTHER -> 1000

AssessCriticality(t) ==
    IF t \in {"grasp_close", "lift", "release"} THEN "high"
    ELSE IF t \in {"grasp_approach", "move_to", "walk_to"} THEN "medium"
    ELSE "low"

\* Mutant: the loop over the table stops at the first keyword that occurs
PlannedActionsFirstMatch(instr) ==
    LET hits == {i \in 1..Len(ActionKeywords) : Contains(instr, ActionKeywords[i])}
    IN IF hits = {} THEN <<"idle">>
       ELSE ActionMap(ActionKeywords[CHOOSE i \in hits : \A j \in hits : i <= j])

PlannedActions(instr) ==
    LET acts == Concat([i \in 1..Len(ActionKeywords) |->
                    IF Contains(instr, ActionKeywords[i])
                    THEN ActionMap(ActionKeywords[i]) ELSE <<>>])
    IN IF acts = <<>> THEN <<"idle">> ELSE acts

DecomposeTask(instr) ==
    LET acts == PlannedActions(instr)
    IN [i \in 1..Len(acts) |->
            [type |-> acts[i],
             estimated_duration |-> GetDuration(acts[i]),
             criticality |-> AssessCriticality(acts[i])]]

(***************************************************************************)
(* Tier 2: long-horizon planner.                                           *)
(***************************************************************************)
\* load_task_embedder().encode: sum(ord(c)) % 256 / 256.0, in 1/2560
TaskEmbedding(instr) ==
    10 * ((SumSeq([i \in 1..Len(instr) |-> WordOrd(instr[i])])
           + 32 * (Len(instr) - 1)) % 256)

\* _encode_subtask: 0.1 for walk_to, 0.5 for every other subtask type
EncodeSubtask(t) == IF t = "walk_to" THEN 256 ELSE 1280

\* Mutant: a subtask shorter than one chunk gets no chunk
NumChunksNoMinimum(subtask) == (subtask.estimated_duration * 3) \div 5000

\* max(1, int(est_duration / (50/30)))
NumChunks(subtask) == Max(1, (subtask.estimated_duration * 3) \div 5000)

\* TransformerDecoderForPlanning.predict: (seed_val + i*0.1) % 1.0
Latent(instr, t, i) == (TaskEmbedding(instr) + EncodeSubtask(t) + 256 * i) % 2560

PlanSubtaskChunks(instr, subtask, start_chunk_id) ==
    [i \in 1..NumChunks(subtask) |->
        [criticality |-> subtask.criticality,
         id |-> start_chunk_id + i - 1,
         subtask_id |-> subtask.type,
         latent |-> Latent(instr, subtask.type, i - 1),
         duration_s |-> ChunkDurationMs]]

RECURSIVE PlanFrom(_, _, _)
PlanFrom(instr, subtasks, chunk_id) ==
    IF subtasks = <<>> THEN <<>>
    ELSE LET cs == PlanSubtaskChunks(instr, Head(subtasks), chunk_id)
         IN cs \o PlanFrom(instr, Tail(subtasks), chunk_id + Len(cs))

PlanActionChunks(instr, subtasks) == PlanFrom(instr, subtasks, 0)

(***************************************************************************)
(* Tier 3: tactile encoder.  It copies every chunk and adds the tactile    *)
(* waypoints and is_tactile_critical; the mapper reads none of them.       *)
(***************************************************************************)
AugmentChunksWithTactile(chunks) ==
    [i \in 1..Len(chunks) |->
        [criticality |-> chunks[i].criticality,
         id |-> chunks[i].id,
         subtask_id |-> chunks[i].subtask_id,
         latent |-> chunks[i].latent,
         duration_s |-> chunks[i].duration_s,
         is_tactile_critical |-> chunks[i].criticality \in {"high", "medium"}]]

(***************************************************************************)
(* Tier 4: universal mapper.                                               *)
(***************************************************************************)
\* _solve_ik(_denormalize(_decode_positions(latent)[-1])): the last of the
\* 50 task-space waypoints is (l/2 + 0.245, l/2, l/2); denormalised to
\* (l - 0.51, l - 1, l/2) and solved by the geometric IK in floating point,
\* rounded to 6 decimals.  Tabulated for the latents the inputs produce.
SolveIK(latent) ==
    CASE latent = 306  -> <<-1988214, -144581, 0, 0, 0, 144581, 0>>
      [] latent = 562  -> <<-1927086, -107934, 0, 0, 0, 107934, 0>>
      [] latent = 1330 -> <<-1550962, 1044344, 0, -1841227, 0, 796883, 0>>
      [] latent = 2350 -> <<-198426, 1468047, 0, -1822700, 0, 354653, 0>>
      [] latent = 886  -> <<-1816393, 527362, 0, -1134646, 0, 607283, 0>>
      [] latent = 1142 -> <<-1685662, 840105, 0, -1597589, 0, 757484, 0>>
      [] latent = 1910 -> <<-821734, 1528087, 0, -2130304, 0, 602217, 0>>

\* JointState(names=..., positions=...)
JointState(names, positions) == [names |-> names, positions |-> positions]

\* current_joints.get(n, 0.0)
GetOr(d, n, dflt) == IF n \in DOMAIN d THEN d[n] ELSE dflt

\* One iteration of the loop of map_chunks_to_robot: the start waypoint is
\* emitted only when current_joints is a non-empty dict.
MapChunk(chunk, current_joints) ==
    LET target_joint_pos == SolveIK(chunk.latent)
        start == IF DOMAIN current_joints # {}
                 THEN <<JointState(JointNames,
                            [i \in 1..Len(JointNames) |->
                                GetOr(current_joints, JointNames[i], 0)])>>
                 ELSE <<>>
    IN [joint_names |-> JointNames,
        chunk_id |-> "tmp",
        plan_id |-> "tmp",
        ordinal |-> 0,
        timestamp |-> NoTime,
        waypoints |-> start \o <<JointState(JointNames, target_joint_pos)>>,
        duration |-> chunk.duration_s,
        max_force_est |-> 0]

\* current_joints = {n: v for n, v in zip(joint_names, target_joint_pos)}
ZipDict(names, positions) ==
    [n \in Range(names) |-> positions[CHOOSE i \in 1..Len(names) : names[i] = n]]

\* Mutant: current_joints is not advanced from chunk to chunk
RECURSIVE MapChunksToRobotNoTracking(_, _)
MapChunksToRobotNoTracking(chunks, current_joints) ==
    IF chunks = <<>> THEN <<>>
    ELSE <<MapChunk(Head(chunks), current_joints)>>
            \o MapChunksToRobotNoTracking(Tail(chunks), current_joints)

RECURSIVE MapChunksToRobot(_, _)
MapChunksToRobot(chunks, current_joints) ==
    IF chunks = <<>> THEN <<>>
    ELSE LET traj == MapChunk(Head(chunks), current_joints)
         IN <<traj>> \o MapChunksToRobot(Tail(chunks),
                 ZipDict(JointNames, traj.waypoints[Len(traj.waypoints)].positions))

(***************************************************************************)
(* Tier 5: physics verifier (PhysicsEngine, stateless).                    *)
(***************************************************************************)
\* Mutant: the velocity penalty is taken on the magnitude of the velocity
CalculateZmpScoreAbs(base_velocity, payload_mass) ==
    LET s1 == 10000 - Abs(base_velocity) * VelPenalty
        s2 == IF payload_mass > 0 THEN s1 - payload_mass * PayloadPenalty ELSE s1
    IN Max(0, Min(10000, s2))

\* calculate_zmp_score(base_velocity, payload_mass, 0.5), clamped to [0, 1]
CalculateZmpScore(base_velocity, payload_mass) ==
    LET s1 == IF base_velocity > 0 THEN 10000 - base_velocity * VelPenalty ELSE 10000
        s2 == IF payload_mass > 0 THEN s1 - payload_mass * PayloadPenalty ELSE s1
    IN Max(0, Min(10000, s2))

\* Mutant: the continuity check is skipped
ContinuityBreaksNone(trajectory, current_joints) == {}

\* 1. Continuity: a joint of the trajectory that the current state knows and
\* that starts further than the tolerance from it.
ContinuityBreaks(trajectory, current_joints) ==
    {idx \in 1..Len(trajectory.joint_names) :
        /\ trajectory.joint_names[idx] \in DOMAIN current_joints
        /\ Abs(current_joints[trajectory.joint_names[idx]]
               - trajectory.waypoints[1].positions[idx]) > Tolerance}

\* 2. The loop over the waypoints: names first, then that waypoint's limits.
NamesMismatch(trajectory, i) == trajectory.waypoints[i].names # trajectory.joint_names

LimitOf(joint_limits, j_name) ==
    IF j_name \in DOMAIN joint_limits THEN joint_limits[j_name] ELSE DefaultLimit

\* Mutant: the bounds themselves are outside the interval
LimitViolatedOpen(trajectory, i, joint_limits) ==
    \E j \in 1..Len(trajectory.waypoints[i].positions) :
        LET lim == LimitOf(joint_limits, trajectory.joint_names[j])
            pos == trajectory.waypoints[i].positions[j]
        IN ~(lim[1] < pos /\ pos < lim[2])

LimitViolated(trajectory, i, joint_limits) ==
    \E j \in 1..Len(trajectory.waypoints[i].positions) :
        LET lim == LimitOf(joint_limits, trajectory.joint_names[j])
            pos == trajectory.waypoints[i].positions[j]
        IN ~(lim[1] <= pos /\ pos <= lim[2])

BadWaypoints(trajectory, joint_limits) ==
    {i \in 1..Len(trajectory.waypoints) :
        NamesMismatch(trajectory, i) \/ LimitViolated(trajectory, i, joint_limits)}

SetMin(S) == CHOOSE x \in S : \A y \in S : x <= y

\* Mutant: a force at the limit is already too much
ForceExceededInclusive(trajectory) == trajectory.max_force_est >= LimitForce

\* 3. Force check
ForceExceeded(trajectory) == trajectory.max_force_est > LimitForce

\* The score is computed in binary floating point.  For the inputs whose
\* exact score is 0.4 (base velocity -4.0..6.0 m/s, payload -5.0..40.0 kg in
\* steps of 0.1) the computed score is 0.3999999999999999, below 0.4, except
\* for the five inputs listed, where it is 0.4 exactly.
RoundsBelowThreshold(base_velocity, payload_mass) ==
    <<base_velocity, payload_mass>> \notin
        {<<1, 224>>, <<3, 192>>, <<5, 160>>, <<12, 48>>, <<14, 16>>}

\* Mutant: the comparison with the threshold is not strict
ZmpCriticalInclusive(current_state) ==
    CalculateZmpScore(current_state.base_vel, current_state.payload) <= ZmpThreshold

\* 4. Stability check: `zmp_score < 0.4` on the floating-point score
ZmpCritical(current_state) ==
    LET score == CalculateZmpScore(current_state.base_vel, current_state.payload)
    IN \/ score < ZmpThreshold
       \/ /\ score = ZmpThreshold
          /\ RoundsBelowThreshold(current_state.base_vel, current_state.payload)

\* Mutant: the stability check comes before the force check
VerifyTrajectoryStabilityFirst(trajectory, current_state, joint_limits) ==
    IF ContinuityBreaks(trajectory, current_state.joints) # {}
    THEN [valid |-> FALSE, reason |-> "Continuity Error"]
    ELSE IF BadWaypoints(trajectory, joint_limits) # {}
    THEN IF NamesMismatch(trajectory, SetMin(BadWaypoints(trajectory, joint_limits)))
         THEN [valid |-> FALSE, reason |-> "Waypoint joint names mismatch"]
         ELSE [valid |-> FALSE, reason |-> "Joint limit violation"]
    ELSE IF ZmpCritical(current_state)
    THEN [valid |-> FALSE, reason |-> "ZMP Critical"]
    ELSE IF ForceExceeded(trajectory)
    THEN [valid |-> FALSE, reason |-> "Force Limit Exceeded"]
    ELSE [valid |-> TRUE, reason |-> "Trajectory within Safe Operating Envelope"]

VerifyTrajectory(trajectory, current_state, joint_limits) ==
    IF ContinuityBreaks(trajectory, current_state.joints) # {}
    THEN [valid |-> FALSE, reason |-> "Continuity Error"]
    ELSE IF BadWaypoints(trajectory, joint_limits) # {}
    THEN IF NamesMismatch(trajectory, SetMin(BadWaypoints(trajectory, joint_limits)))
         THEN [valid |-> FALSE, reason |-> "Waypoint joint names mismatch"]
         ELSE [valid |-> FALSE, reason |-> "Joint limit violation"]
    ELSE IF ForceExceeded(trajectory)
    THEN [valid |-> FALSE, reason |-> "Force Limit Exceeded"]
    ELSE IF ZmpCritical(current_state)
    THEN [valid |-> FALSE, reason |-> "ZMP Critical"]
    ELSE [valid |-> TRUE, reason |-> "Trajectory within Safe Operating Envelope"]

(***************************************************************************)
(* Kinematic twin (KinematicSimulator).                                    *)
(***************************************************************************)
TwinInit ==
    [joints |-> [n \in Range(JointNames) |-> 0],
     payload |-> 0,
     base_vel |-> 0,
     last_update |-> 0]

\* get_state_vector
GetStateVector(sim) ==
    [joints |-> sim.joints, payload |-> sim.payload, base_vel |-> sim.base_vel]

\* Mutant: the teleport is lost
SetJointStateNoop(sim, new_angles) == sim

\* Mutant: the new angles are added to the current ones
SetJointStateRelative(sim, new_angles) ==
    [sim EXCEPT !.joints =
        [n \in Range(JointNames) |->
            LET i == CHOOSE k \in 1..Len(JointNames) : JointNames[k] = n
            IN IF i <= Len(new_angles) THEN sim.joints[n] + new_angles[i]
                                       ELSE sim.joints[n]]]

\* set_joint_state: new_angles[i] goes to the i-th key of joint_angles
SetJointState(sim, new_angles) ==
    [sim EXCEPT !.joints =
        [n \in Range(JointNames) |->
            LET i == CHOOSE k \in 1..Len(JointNames) : JointNames[k] = n
            IN IF i <= Len(new_angles) THEN new_angles[i] ELSE sim.joints[n]]]

\* step: last_update = time.time()
Step(sim) == [sim EXCEPT !.last_update = wall]

(***************************************************************************)
(* Tier 6: execution adapter (ROS2Adapter).                                *)
(***************************************************************************)
\* _simulate_execution: sleeps, then always reports success
SimulateExecution ==
    [success |-> TRUE, error_code |-> 0, error_string |-> "Goal Reached (Simulated)"]

\* _execute_hardware: fails only when wait_for_server times out
ExecuteHardware(server_ok) ==
    IF ~server_ok
    THEN [success |-> FALSE, error_code |-> -1, error_string |-> "Action Server Timeout"]
    ELSE [success |-> TRUE, error_code |-> 0, error_string |-> "Sent to Hardware (Async)"]

(***************************************************************************)
(* Pipeline orchestrator (MRCPUnifiedPipeline).                            *)
(***************************************************************************)
\* plan_id = sha256_json({input_digest, config_digest, schema_version})
PlanId(instruction, perception, state) ==
    [instruction |-> instruction, perception |-> perception, state |-> state]

\* Mutant: the ordinal is left out of the hashed record
ChunkIdNoOrdinal(plan_id, ordinal, traj) ==
    [plan_id |-> plan_id, ordinal |-> 0, payload_digest |-> traj]

\* chunk_id = sha256_json({plan_id, ordinal, payload_digest})
ChunkId(plan_id, ordinal, traj) ==
    [plan_id |-> plan_id, ordinal |-> ordinal, payload_digest |-> traj]

\* Mutant: the plan cache is never consulted
PlanCachedNever(plans, plan_id) == FALSE

\* `if plan_id in self.active_plans`
PlanCached(plans, plan_id) == plan_id \in DOMAIN plans

\* Mutant: the chunks are stamped with time.time() instead of the clock
BuildPlanWallStamped(instruction, perception, state, now) ==
    LET plan_id == PlanId(instruction, perception, state)
        trajs == MapChunksToRobot(
                     AugmentChunksWithTactile(
                         PlanActionChunks(instruction, DecomposeTask(instruction))),
                     ToOrderedDict(state))
    IN [plan_id |-> plan_id,
        instruction |-> instruction,
        chunks |-> [i \in 1..Len(trajs) |->
            [trajs[i] EXCEPT !.chunk_id = ChunkId(plan_id, i - 1, trajs[i]),
                             !.plan_id = plan_id,
                             !.ordinal = i - 1,
                             !.timestamp = wall]],
        created_at |-> now]

\* The T1..T4 stages and the finalisation of the chunk ids
BuildPlan(instruction, perception, state, now) ==
    LET plan_id == PlanId(instruction, perception, state)
        subtasks == DecomposeTask(instruction)
        raw_chunks == PlanActionChunks(instruction, subtasks)
        augmented == AugmentChunksWithTactile(raw_chunks)
        trajs == MapChunksToRobot(augmented, ToOrderedDict(state))
    IN [plan_id |-> plan_id,
        instruction |-> instruction,
        chunks |-> [i \in 1..Len(trajs) |->
            [trajs[i] EXCEPT !.chunk_id = ChunkId(plan_id, i - 1, trajs[i]),
                             !.plan_id = plan_id,
                             !.ordinal = i - 1,
                             !.timestamp = now]],
        created_at |-> now]

\* dict assignment d[k] = v
\* Mutant: the dict is replaced by one that holds the new entry only
StoreAlone(d, k, v) == (k :> v)

Store(d, k, v) == (k :> v) @@ d

\* process_task on the plan cache `plans`; `plansNext` is its next value
ProcessTaskOn(plans, plansNext, pipeline, instruction, perception, state) ==
    LET plan_id == PlanId(instruction, perception, state)
    IN /\ lock = NoCall
       /\ ret.seq < MaxCalls
       /\ IF PlanCached(plans, plan_id)
          THEN /\ plansNext = plans
               /\ ret' = [op |-> "process_task", seq |-> ret.seq + 1,
                          pipeline |-> pipeline, planned |-> FALSE,
                          plan |-> plans[plan_id]]
          ELSE LET plan == BuildPlan(instruction, perception, state, Now)
               IN /\ Cardinality(DOMAIN plans \cup {plan_id}) <= MaxPlans
                  /\ plansNext = Store(plans, plan_id, plan)
                  /\ ret' = [op |-> "process_task", seq |-> ret.seq + 1,
                             pipeline |-> pipeline, planned |-> TRUE,
                             plan |-> plan]

ProcessTask ==
    \E instruction \in Instructions, perception \in Perceptions, state \in Snapshots :
        /\ ProcessTaskOn(active_plans, active_plans', 1, instruction, perception, state)
        /\ UNCHANGED <<execution_results, twin, mode, lock, wall, frozen, active_plans2,
                       errored, waiters>>

ProcessTask2 ==
    \E instruction \in Instructions, perception \in Perceptions, state \in Snapshots :
        /\ ProcessTaskOn(active_plans2, active_plans2', 2, instruction, perception, state)
        /\ UNCHANGED <<execution_results, twin, mode, lock, wall, frozen, active_plans,
                       errored, waiters>>

\* exec_id = f"{plan_id}:{chunk_id}"
ExecId(plan_id, chunk_id) == <<plan_id, chunk_id>>

\* No exec id (the history of ERROR answers is empty)
NoExec == <<>>

\* Mutant: the idempotency cache is never consulted
ResultCachedNever(results, exec_id) == FALSE

\* Mutant: FAILED records are not served from the cache (failures are retried)
ResultCachedUnlessFailed(results, exec_id) ==
    /\ exec_id \in DOMAIN results
    /\ results[exec_id].status # "FAILED"

\* Mutant: REJECTED records are not served from the cache
ResultCachedUnlessRejected(results, exec_id) ==
    /\ exec_id \in DOMAIN results
    /\ results[exec_id].status # "REJECTED"

\* `if exec_id in self.execution_results`
ResultCached(results, exec_id) == exec_id \in DOMAIN results

\* Mutant: a chunk id that matches no chunk yields the first chunk
FindChunkFirst(plan, chunk_id) ==
    LET hits == {i \in 1..Len(plan.chunks) : plan.chunks[i].chunk_id = chunk_id}
    IN IF hits = {} THEN 1 ELSE SetMin(hits)

\* next((c for c in plan.chunks if c.chunk_id == chunk_id), None): the
\* position of the first match, 0 for None
FindChunk(plan, chunk_id) ==
    LET hits == {i \in 1..Len(plan.chunks) : plan.chunks[i].chunk_id = chunk_id}
    IN IF hits = {} THEN 0 ELSE SetMin(hits)

\* Mutant: the report's verdict is ignored
SafetyGateOpen(safety_report) == TRUE

\* `if not safety_report["valid"]` decides between REJECTED and Tier 6
SafetyGate(safety_report) == safety_report.valid

\* Mutant: the mode is not looked at
TwinAdvancesAnyMode(result, m) == result.success

\* `if result.get("success") and self.tier6_bridge.mode == "SIM"`
TwinAdvances(result, m) == result.success /\ m = "SIM"

\* Mutant: the Twin is set to the chunk's first waypoint
AfterExecutionToStart(sim, target_chunk, result, m) ==
    Step(IF TwinAdvances(result, m)
         THEN SetJointState(sim, target_chunk.waypoints[1].positions)
         ELSE sim)

\* Step 4 of execute_chunk: the SIM update, then kinematic_sim.step()
AfterExecution(sim, target_chunk, result, m) ==
    Step(IF TwinAdvances(result, m)
         THEN SetJointState(sim,
                  target_chunk.waypoints[Len(target_chunk.waypoints)].positions)
         ELSE sim)

FinalResult(result, now) ==
    [status |-> IF result.success THEN "SUCCESS" ELSE "FAILED",
     ros_result |-> result,
     executed_at |-> now]

RejectedResult(safety_report) == [reason |-> safety_report.reason, status |-> "REJECTED"]

ErrorResult(what) == [reason |-> what, status |-> "ERROR"]

\* What a finished execute_chunk call leaves in `ret`
ExecReturn(plan_id, chunk_id, path, result, verified, sim_state, report, t6) ==
    [op |-> "execute_chunk",
     chunk_id |-> chunk_id, plan_id |-> plan_id,
     seq |-> ret.seq + 1,
     path |-> path, result |-> result,
     verified |-> verified, sim_state |-> sim_state, report |-> report,
     t6_called |-> t6]

\* Mutant: the call returns without releasing the mutex
CompleteHoldingLock(call, result) ==
    /\ twin' = AfterExecution(twin, call.chunk, result, mode)
    /\ execution_results' =
           Store(execution_results, ExecId(call.plan_id, call.chunk_id),
                 FinalResult(result, Now))
    /\ ret' = ExecReturn(call.plan_id, call.chunk_id, "executed",
                         FinalResult(result, Now), TRUE,
                         call.sim_state, call.report, TRUE)
    /\ lock' = call
    /\ UNCHANGED errored

\* The part of execute_chunk after the await of tier6_bridge.execute_trajectory
Complete(call, result) ==
    /\ twin' = AfterExecution(twin, call.chunk, result, mode)
    /\ execution_results' =
           Store(execution_results, ExecId(call.plan_id, call.chunk_id),
                 FinalResult(result, Now))
    /\ ret' = ExecReturn(call.plan_id, call.chunk_id, "executed",
                         FinalResult(result, Now), TRUE,
                         call.sim_state, call.report, TRUE)
    /\ lock' = NoCall
    /\ UNCHANGED errored

\* execute_chunk from the acquisition of the lock to its return or, in SIM
\* mode, to the first asyncio.sleep inside the adapter
ExecuteChunkCall(plan_id, chunk_id, server_ok) ==
    LET exec_id == ExecId(plan_id, chunk_id)
    IN
    /\ lock = NoCall
    /\ ret.seq < MaxCalls
    /\ IF ResultCached(execution_results, exec_id)
       THEN /\ ret' = ExecReturn(plan_id, chunk_id, "cache_hit",
                                 execution_results[exec_id], FALSE, NoValue, NoValue, FALSE)
            /\ UNCHANGED <<execution_results, twin, lock, errored>>
       ELSE IF plan_id \notin DOMAIN active_plans
       THEN /\ ret' = ExecReturn(plan_id, chunk_id, "plan_not_found",
                                 ErrorResult("Plan not found."), FALSE, NoValue, NoValue, FALSE)
            /\ errored' = exec_id
            /\ UNCHANGED <<execution_results, twin, lock>>
       ELSE IF FindChunk(active_plans[plan_id], chunk_id) = 0
       THEN /\ ret' = ExecReturn(plan_id, chunk_id, "chunk_not_found",
                                 ErrorResult("Chunk not found."), FALSE, NoValue, NoValue, FALSE)
            /\ errored' = exec_id
            /\ UNCHANGED <<execution_results, twin, lock>>
       ELSE LET plan == active_plans[plan_id]
                target_chunk == plan.chunks[FindChunk(plan, chunk_id)]
                sim_state == GetStateVector(twin)
                safety_report == VerifyTrajectory(target_chunk, sim_state, JointLimits)
                call == [op |-> "execute_chunk", chunk_id |-> chunk_id,
                         plan_id |-> plan_id, sim_state |-> sim_state,
                         report |-> safety_report, chunk |-> target_chunk]
            IN IF ~SafetyGate(safety_report)
               THEN /\ execution_results' =
                           Store(execution_results, exec_id, RejectedResult(safety_report))
                    /\ ret' = ExecReturn(plan_id, chunk_id, "rejected",
                                         RejectedResult(safety_report), TRUE,
                                         sim_state, safety_report, FALSE)
                    /\ UNCHANGED <<twin, lock, errored>>
               ELSE IF mode = "SIM"
               THEN /\ lock' = call
                    /\ UNCHANGED <<execution_results, twin, ret, errored>>
               ELSE Complete(call, ExecuteHardware(server_ok))
    /\ UNCHANGED <<active_plans, mode, wall, frozen, active_plans2>>

UnknownPlanId == PlanId(<<"unknown">>, "stable_frame", EmptySnap)
UnknownChunkId == [plan_id |-> UnknownPlanId, ordinal |-> 0, payload_digest |-> NoValue]

PlanIdInputs ==
    {PlanId(i, p, s) : i \in Instructions, p \in Perceptions, s \in Snapshots}
        \cup {UnknownPlanId}

\* The chunk ids a client can name for a plan id: those of the plan that the
\* id denotes (whether or not it is stored yet), and one of no plan
ChunkIdInputs(plan_id) ==
    (IF plan_id = UnknownPlanId THEN {}
     ELSE {c.chunk_id : c \in Range(BuildPlan(plan_id.instruction, plan_id.perception,
                                              plan_id.state, 0).chunks)})
        \cup {UnknownChunkId}

ExecuteChunk ==
    \E plan_id \in PlanIdInputs :
        \E chunk_id \in ChunkIdInputs(plan_id), server_ok \in BOOLEAN :
            /\ ExecuteChunkCall(plan_id, chunk_id, server_ok)
            /\ UNCHANGED waiters

\* The benchmark's first task, whose plan has several chunks of one target
PickInstructions == {<<"pick", "up", "the", "apple">>}

ProcessTaskPick ==
    \E instruction \in PickInstructions, perception \in Perceptions, state \in Snapshots :
        /\ ProcessTaskOn(active_plans, active_plans', 1, instruction, perception, state)
        /\ UNCHANGED <<execution_results, twin, mode, lock, wall, frozen, active_plans2,
                       errored, waiters>>

ExecuteChunkPick ==
    \E instruction \in PickInstructions, perception \in Perceptions, state \in Snapshots :
        \E chunk_id \in ChunkIdInputs(PlanId(instruction, perception, state)),
           server_ok \in BOOLEAN :
            /\ ExecuteChunkCall(PlanId(instruction, perception, state), chunk_id, server_ok)
            /\ UNCHANGED waiters

\* The SIM adapter's sleeps are over: execute_trajectory returns success
ExecuteChunkResume ==
    /\ lock # NoCall
    /\ Complete(lock, SimulateExecution)
    /\ UNCHANGED <<active_plans, mode, wall, frozen, active_plans2, waiters>>

(***************************************************************************)
(* The environment: the clock and the simulator's setters.                 *)
(***************************************************************************)
Tick ==
    /\ wall < MaxTime
    /\ wall' = wall + 1
    /\ UNCHANGED <<active_plans, execution_results, twin, mode, lock, frozen, ret,
                   active_plans2, errored, waiters>>

Freeze ==
    /\ frozen = NoTime
    /\ frozen' = FrozenAt
    /\ UNCHANGED <<active_plans, execution_results, twin, mode, lock, wall, ret,
                   active_plans2, errored, waiters>>

Unfreeze ==
    /\ frozen # NoTime
    /\ frozen' = NoTime
    /\ UNCHANGED <<active_plans, execution_results, twin, mode, lock, wall, ret,
                   active_plans2, errored, waiters>>

\* The server's emergency tool: it logs a warning and answers with a fixed
\* string. It takes no lock and touches neither the pipeline nor the adapter,
\* so it can also run while an execute_chunk call is suspended in the adapter.
StabilizeReply == "Stabilization command sent to Whole-Body Controller."

Stabilize ==
    /\ ret.seq < MaxCalls
    /\ ret' = [op |-> "stabilize", seq |-> ret.seq + 1, result |-> StabilizeReply,
               t6_called |-> FALSE]
    /\ UNCHANGED <<active_plans, execution_results, twin, mode, lock, wall, frozen,
                   active_plans2, errored, waiters>>

UpdatePayload ==
    \E mass \in Payloads :
        /\ twin.payload # mass
        /\ twin' = [twin EXCEPT !.payload = mass]
        /\ UNCHANGED <<active_plans, execution_results, mode, lock, wall, frozen, ret,
                       active_plans2, errored, waiters>>

UpdateBaseVelocity ==
    \E velocity \in BaseVels :
        /\ twin.base_vel # velocity
        /\ twin' = [twin EXCEPT !.base_vel = velocity]
        /\ UNCHANGED <<active_plans, execution_results, mode, lock, wall, frozen, ret,
                       active_plans2, errored, waiters>>

(***************************************************************************)
(* The verifier called on its own: verify_trajectory is a static method    *)
(* that takes any trajectory and any state dict.                           *)
(***************************************************************************)
VerifyPayloads == {0, 48, 80, 200, 240}        \* 0.1 kg
VerifyBaseVels == {-30, 0, 10, 12, 15, 30}     \* 0.1 m/s
VerifyForces == {0, 1000, 1001, 1500}          \* 0.1 N: 100.0, 100.1, 150.0

\* The chunks of the plan for "place" from the zero pose
PlaceChunks == BuildPlan(<<"place">>, "stable_frame", ZeroSnap, 0).chunks

\* A chunk crafted from another: one field of it replaced
WithForce(traj, force) == [traj EXCEPT !.max_force_est = force]
WithNames(traj, i, names) == [traj EXCEPT !.waypoints[i].names = names]
WithPosition(traj, i, j, pos) == [traj EXCEPT !.waypoints[i].positions[j] = pos]

\* Positions of joint_1 in the first waypoint, around 0.1 rad and 0.5 rad
\* from the zero pose, and of joint_2 in the last waypoint, at and just
\* beyond its limits of -2.0 and 2.0 rad
StartOffsets == {100000, 100001, 300000, 500000, 500001}
TargetsNearLimit == {-2000001, -2000000, 2000000, 2000001}

\* Chunk 0 as planned; chunk 2, which starts far from the zero pose; chunk 0
\* with other names in its last waypoint; with joint_2 beyond its limit in
\* its last waypoint; with both; and with joint_2 beyond its limit in the
\* first waypoint and other names in the last; chunk 0 with each of the
\* positions above; and with joint_2 at its limit in the first waypoint
VerifyShapes ==
    {PlaceChunks[1],
     PlaceChunks[3],
     WithNames(PlaceChunks[1], 2, <<"j1", "j2", "j3", "j4", "j5", "j6", "j7">>),
     WithPosition(PlaceChunks[1], 2, 2, 2500000),
     WithNames(WithPosition(PlaceChunks[1], 2, 2, 2500000), 2,
               <<"j1", "j2", "j3", "j4", "j5", "j6", "j7">>),
     WithNames(WithPosition(PlaceChunks[1], 1, 2, 2100000), 2,
               <<"j1", "j2", "j3", "j4", "j5", "j6", "j7">>)}
        \cup {WithPosition(PlaceChunks[1], 1, 1, pos) : pos \in StartOffsets}
        \cup {WithPosition(PlaceChunks[1], 2, 2, pos) : pos \in TargetsNearLimit}
        \cup {WithPosition(PlaceChunks[1], 1, 2, 2000000)}

VerifyTrajectories == {WithForce(traj, f) : traj \in VerifyShapes, f \in VerifyForces}

\* Joint maps of the state dict: the zero pose, and joint_2 at 2.1 rad
VerifyJoints ==
    {TwinInit.joints, [TwinInit.joints EXCEPT !["joint_2"] = 2100000]}

VerifyStates ==
    {[joints |-> j, payload |-> p, base_vel |-> v] :
        j \in VerifyJoints, p \in VerifyPayloads, v \in VerifyBaseVels}

\* PhysicsEngine.verify_trajectory(trajectory, current_state, joint_limits);
\* the method is stateless, so a behaviour makes one call
VerifyCall ==
    \E trajectory \in VerifyTrajectories, current_state \in VerifyStates :
        /\ ret.op = "none"
        /\ ret' = [op |-> "verify_trajectory",
                   report |-> VerifyTrajectory(trajectory, current_state, JointLimits),
                   trajectory |-> trajectory,
                   current_state |-> current_state]
        /\ UNCHANGED <<active_plans, execution_results, twin, mode, lock, wall, frozen,
                       active_plans2, errored, waiters>>

(***************************************************************************)
(* Specifications.                                                         *)
(***************************************************************************)
EmptyMap == [x \in {} |-> x]

Init ==
    /\ active_plans = EmptyMap
    /\ execution_results = EmptyMap
    /\ twin = TwinInit
    /\ mode \in Modes
    /\ lock = NoCall
    /\ wall = 0
    /\ frozen \in {NoTime, FrozenAt}
    /\ ret = [op |-> "none", seq |-> 0]
    /\ active_plans2 = EmptyMap
    /\ errored = NoExec
    /\ waiters = NoWaiters

Next ==
    \/ ProcessTask
    \/ ExecuteChunk
    \/ ExecuteChunkResume
    \/ Tick
    \/ UpdatePayload
    \/ UpdateBaseVelocity

Spec == Init /\ [][Next]_vars

\* The pipeline behind the server's tools, stabilize included
InitServer ==
    /\ Init
    /\ frozen = NoTime

NextServer ==
    \/ ProcessTask
    \/ ExecuteChunk
    \/ ExecuteChunkResume
    \/ Stabilize

SpecServer == InitServer /\ [][NextServer]_vars

\* What the external trajectory controller does with a goal it is sent
ControllerBehaviours == {"succeeds", "rejects", "cancels"}

\* ROS2Adapter.execute_trajectory called on its own.  In HARDWARE mode the
\* goal message is built but send_goal_async is never called, so the
\* controller's behaviour has no part in the result.
ExecuteTrajectoryCall ==
    \E trajectory \in VerifyTrajectories, server_ok \in BOOLEAN,
       controller \in ControllerBehaviours :
        /\ ret.op = "none"
        /\ ret' = [op |-> "execute_trajectory",
                   result |-> IF mode = "SIM" THEN SimulateExecution
                              ELSE ExecuteHardware(server_ok),
                   trajectory |-> trajectory,
                   server_ok |-> server_ok,
                   controller |-> controller,
                   goal_sent |-> FALSE]
        /\ UNCHANGED <<active_plans, execution_results, twin, mode, lock, wall, frozen,
                       active_plans2, errored, waiters>>

\* Instructions for the decomposer on its own: up to MaxWords words of a
\* vocabulary with the keywords, a capitalised keyword, a word that has a
\* keyword inside it and a word with none, and the benchmark's first task
MaxWords == 3

DecomposeWords == {"pick", "place", "move", "Place", "remove", "apple"}

DecomposeInstructions ==
    UNION {[1..n -> DecomposeWords] : n \in 1..MaxWords}
        \cup {<<"pick", "up", "the", "apple">>}

DecomposeCall ==
    \E instruction \in DecomposeInstructions :
        /\ ret.op = "none"
        /\ ret' = [op |-> "decompose_task",
                   instruction |-> instruction,
                   subtasks |-> DecomposeTask(instruction)]
        /\ UNCHANGED <<active_plans, execution_results, twin, mode, lock, wall, frozen,
                       active_plans2, errored, waiters>>

NextDecompose == DecomposeCall

SpecDecompose == InitServer /\ [][NextDecompose]_vars

\* Calls queued on the pipeline mutex.  asyncio.Lock keeps its waiters in a
\* FIFO and wakes the first when the holder releases.  A queued call
\* remembers whether a call on the same (plan_id, chunk_id) was in flight
\* (queued before it, or suspended in the adapter) when it was issued, and
\* whether it named a chunk of a stored plan then.
QueuePlanId == PlanId(<<"place">>, "stable_frame", ZeroSnap)

SubmitCalls ==
    {[op |-> "process_task", chunk_id |-> UnknownChunkId]}
        \cup {[op |-> "execute_chunk", chunk_id |-> c] : c \in ChunkIdInputs(QueuePlanId)}

InFlight(call) ==
    /\ call.op = "execute_chunk"
    /\ \/ \E i \in 1..Len(waiters.pending) :
             /\ waiters.pending[i].op = "execute_chunk"
             /\ waiters.pending[i].chunk_id = call.chunk_id
       \/ /\ lock # NoCall
          /\ lock.plan_id = QueuePlanId
          /\ lock.chunk_id = call.chunk_id

\* The call names a chunk of a stored plan
Resolves(call) ==
    /\ call.op = "execute_chunk"
    /\ QueuePlanId \in DOMAIN active_plans
    /\ FindChunk(active_plans[QueuePlanId], call.chunk_id) # 0

\* The calls issued so far: returned, suspended in the adapter, or queued
Issued == ret.seq + (IF lock # NoCall THEN 1 ELSE 0) + Len(waiters.pending)

\* A client issues a call: it reaches `async with self.lock`
Submit ==
    \E call \in SubmitCalls :
        /\ Issued < MaxCalls
        /\ Len(waiters.pending) < MaxWaiting
        /\ waiters' = [waiters EXCEPT !.pending =
                          Append(@, [op |-> call.op, chunk_id |-> call.chunk_id,
                                     concurrent |-> InFlight(call),
                                     known |-> Resolves(call)])]
        /\ UNCHANGED <<active_plans, execution_results, twin, mode, lock, wall, frozen, ret,
                       active_plans2, errored>>

\* Mutant: the mutex is granted to the waiter that came last
AdmitLastWaiter ==
    /\ waiters.pending # <<>>
    /\ lock = NoCall
    /\ LET last == waiters.pending[Len(waiters.pending)]
       IN /\ waiters' = [pending |-> SubSeq(waiters.pending, 1, Len(waiters.pending) - 1),
                         admitted |-> last]
          /\ IF last.op = "process_task"
             THEN /\ ProcessTaskOn(active_plans, active_plans', 1,
                                   <<"place">>, "stable_frame", ZeroSnap)
                  /\ UNCHANGED <<execution_results, twin, mode, lock, wall, frozen,
                                 active_plans2, errored>>
             ELSE \E server_ok \in BOOLEAN :
                      ExecuteChunkCall(QueuePlanId, last.chunk_id, server_ok)

\* The mutex is free: the first waiter acquires it and its call runs, to its
\* return or, in SIM mode, to the adapter's first sleep
Admit ==
    /\ waiters.pending # <<>>
    /\ lock = NoCall
    /\ waiters' = [pending |-> Tail(waiters.pending), admitted |-> Head(waiters.pending)]
    /\ IF Head(waiters.pending).op = "process_task"
       THEN /\ ProcessTaskOn(active_plans, active_plans', 1,
                             <<"place">>, "stable_frame", ZeroSnap)
            /\ UNCHANGED <<execution_results, twin, mode, lock, wall, frozen,
                           active_plans2, errored>>
       ELSE \E server_ok \in BOOLEAN :
                ExecuteChunkCall(QueuePlanId, Head(waiters.pending).chunk_id, server_ok)

NextQueue ==
    \/ Submit
    \/ Admit
    \/ ExecuteChunkResume

SpecQueue == InitServer /\ [][NextQueue]_vars

\* asyncio.Lock on release: the first waiter leaves the queue and holds the
\* mutex.  Within NextQueue a Grant step is an Admit step and conversely.
Grant ==
    /\ waiters.pending # <<>>
    /\ lock = NoCall
    /\ waiters' = [pending |-> Tail(waiters.pending), admitted |-> Head(waiters.pending)]

\* The adapter call returns and the mutex is granted to its waiters in turn
SpecQueueFair ==
    /\ InitServer
    /\ [][NextQueue]_vars
    /\ WF_waiters(Grant)
    /\ WF_vars(ExecuteChunkResume)

\* The contracts' validators on their own.  RobotStateSnapshot raises when
\* the two lists differ in length; JointState raises when names is empty,
\* or when names and positions are both non-empty and differ in length.
SnapshotRaises(joint_names, joint_positions) == Len(joint_names) # Len(joint_positions)

JointStateRaises(names, positions) ==
    \/ names = <<>>
    \/ names # <<>> /\ positions # <<>> /\ Len(names) # Len(positions)

\* Lists of names and of positions of every length up to the robot's 7 joints
NameLists == {SubSeq(JointNames, 1, n) : n \in 0..Len(JointNames)}
PositionLists == {[i \in 1..n |-> v] : n \in 0..Len(JointNames), v \in {0, 500000}}

ConstructSnapshot ==
    \E joint_names \in NameLists, joint_positions \in PositionLists :
        /\ ret.op = "none"
        /\ ret' = [op |-> "RobotStateSnapshot",
                   joint_names |-> joint_names,
                   joint_positions |-> joint_positions,
                   raised |-> SnapshotRaises(joint_names, joint_positions)]
        /\ UNCHANGED <<active_plans, execution_results, twin, mode, lock, wall, frozen,
                       active_plans2, errored, waiters>>

ConstructJointState ==
    \E names \in NameLists, positions \in PositionLists :
        /\ ret.op = "none"
        /\ ret' = [op |-> "JointState",
                   names |-> names,
                   positions |-> positions,
                   raised |-> JointStateRaises(names, positions)]
        /\ UNCHANGED <<active_plans, execution_results, twin, mode, lock, wall, frozen,
                       active_plans2, errored, waiters>>

NextSchemas ==
    \/ ConstructSnapshot
    \/ ConstructJointState

SpecSchemas == InitServer /\ [][NextSchemas]_vars

\* The adapter on its own, in either mode
NextAdapter == ExecuteTrajectoryCall

SpecAdapter == InitServer /\ [][NextAdapter]_vars

\* The pipeline on the benchmark's first task
NextPick ==
    \/ ProcessTaskPick
    \/ ExecuteChunkPick
    \/ ExecuteChunkResume

SpecPick == InitServer /\ [][NextPick]_vars

\* Two pipelines constructed with the same config in one process: they share
\* the process-wide clock, which tests freeze and unfreeze.
InitDet ==
    /\ Init
    /\ frozen = NoTime

NextDet ==
    \/ ProcessTask
    \/ ProcessTask2
    \/ Tick
    \/ Freeze
    \/ Unfreeze

SpecDet == InitDet /\ [][NextDet]_vars

\* The verifier applied to trajectories and states drawn from bounded sets
NextVerify == VerifyCall

InitVerify ==
    /\ Init
    /\ mode = "SIM"
    /\ frozen = NoTime

SpecVerify == InitVerify /\ [][NextVerify]_vars

(***************************************************************************)
(* Properties.                                                             *)
(***************************************************************************)
\* A step in which a call returns
Returns == ret'.seq # ret.seq
ExecReturns == Returns /\ ret'.op = "execute_chunk"

\* The chunk of a stored plan that a chunk id names
ChunkOf(plan_id, chunk_id) ==
    CHOOSE c \in Range(active_plans[plan_id].chunks) : c.chunk_id = chunk_id

HasChunk(plan_id, chunk_id) ==
    /\ plan_id \in DOMAIN active_plans
    /\ \E c \in Range(active_plans[plan_id].chunks) : c.chunk_id = chunk_id

LastWaypoint(chunk) == chunk.waypoints[Len(chunk.waypoints)]

\* C1 (execution idempotency): a SUCCESS, FAILED or REJECTED record is stored
\* under its (plan_id, chunk_id) when it is first returned, a stored record
\* is never changed or dropped by any later step, and every call on a pair
\* that has a stored record returns that very record (status, executed_at
\* and all), whatever happened in between.
C1_ExecutionIdempotency ==
    [][ /\ \A e \in DOMAIN execution_results :
              /\ e \in DOMAIN execution_results'
              /\ execution_results'[e] = execution_results[e]
        /\ ExecReturns =>
              LET e == <<ret'.plan_id, ret'.chunk_id>>
              IN /\ ret'.result.status \in {"SUCCESS", "FAILED", "REJECTED"}
                     => /\ e \in DOMAIN execution_results'
                        /\ execution_results'[e] = ret'.result
                 /\ (lock = NoCall /\ e \in DOMAIN execution_results)
                     => ret'.result = execution_results[e]
      ]_vars

\* A repeated call returned the cached SUCCESS of an execution that precedes
\* the execution of another chunk at a later clock value: the clock moved and
\* another chunk was executed between the first return and the repeated call.
C1_Witness ==
    /\ ret.op = "execute_chunk"
    /\ ret.path = "cache_hit"
    /\ ret.result.status = "SUCCESS"
    /\ \E e \in DOMAIN execution_results :
          /\ execution_results[e].status \in {"SUCCESS", "FAILED"}
          /\ execution_results[e].executed_at > ret.result.executed_at

\* C2 (safety gate): the adapter is invoked only for a chunk whose report,
\* computed in the same call from the Twin's state at that moment, is valid;
\* a call whose report is not valid returns REJECTED with the report's
\* reason, never invokes the adapter and leaves the Twin alone.
C2_SafetyGate ==
    [][ /\ (lock = NoCall /\ lock' # NoCall) =>
              /\ lock'.report.valid
              /\ lock'.sim_state.joints = twin.joints
              /\ lock'.sim_state.payload = twin.payload
              /\ lock'.sim_state.base_vel = twin.base_vel
              /\ lock'.report = VerifyTrajectory(lock'.chunk, lock'.sim_state, JointLimits)
        /\ ExecReturns =>
              /\ ret'.t6_called =>
                    /\ ret'.verified
                    /\ ret'.report.valid
                    /\ ret'.report = VerifyTrajectory(
                           ChunkOf(ret'.plan_id, ret'.chunk_id), ret'.sim_state, JointLimits)
                    /\ IF lock = NoCall
                       THEN /\ ret'.sim_state.joints = twin.joints
                            /\ ret'.sim_state.payload = twin.payload
                            /\ ret'.sim_state.base_vel = twin.base_vel
                       ELSE ret'.sim_state = lock.sim_state
              /\ (ret'.verified /\ ~ret'.report.valid) =>
                    /\ ret'.result = [reason |-> ret'.report.reason, status |-> "REJECTED"]
                    /\ ~ret'.t6_called
                    /\ twin' = twin
      ]_vars

\* A call was rejected by the verifier while another chunk had gone through
\* the adapter.
C2_Witness ==
    /\ ret.op = "execute_chunk"
    /\ ret.path = "rejected"
    /\ ~ret.report.valid
    /\ \E e \in DOMAIN execution_results : execution_results[e].status = "SUCCESS"

\* The chunk of a verifying call starts further than 0.5 rad from the state
\* it was verified against, in some joint
StartsFar(chunk, sim_state) ==
    \E i \in 1..7 :
        \/ sim_state.joints[JointNames[i]] - chunk.waypoints[1].positions[i] > 500000
        \/ chunk.waypoints[1].positions[i] - sim_state.joints[JointNames[i]] > 500000

\* The chunk before `chunk` in its plan has a SUCCESS record
PreviousSucceeded(chunk) ==
    LET prev == active_plans[chunk.plan_id].chunks[chunk.ordinal]
        e == <<chunk.plan_id, prev.chunk_id>>
    IN /\ e \in DOMAIN execution_results
       /\ execution_results[e].status = "SUCCESS"

\* C3 as stated: a call that reaches the verifier for a chunk i+1 (ordinal
\* >= 1) whose predecessor has not been successfully executed returns
\* REJECTED with a continuity reason.
C3_Original ==
    (/\ ret.op = "execute_chunk"
     /\ ret.verified
     /\ ChunkOf(ret.plan_id, ret.chunk_id).ordinal >= 1
     /\ ~PreviousSucceeded(ChunkOf(ret.plan_id, ret.chunk_id)))
    => (/\ ret.result.status = "REJECTED"
        /\ ret.result.reason = "Continuity Error")

\* C3 (amended): a call that reaches the verifier for a chunk whose first
\* waypoint lies more than 0.5 rad from the Twin in some joint returns
\* REJECTED with a continuity reason and the Twin does not move, whatever the
\* payload and the base velocity; a chunk executed out of order whose first
\* waypoint is within 0.5 rad of the Twin in every joint is not rejected for
\* continuity.
C3_OutOfOrderFarRejected ==
    [][ (ExecReturns /\ ret'.verified) =>
            LET chunk == ChunkOf(ret'.plan_id, ret'.chunk_id)
            IN IF StartsFar(chunk, ret'.sim_state)
               THEN /\ ret'.result.status = "REJECTED"
                    /\ ret'.result.reason = "Continuity Error"
                    /\ twin' = twin
                    /\ lock = NoCall
               ELSE ~(/\ ret'.result.status = "REJECTED"
                      /\ ret'.result.reason = "Continuity Error")
      ]_vars

\* Chunk i+1 (ordinal >= 1) was submitted before its predecessor succeeded,
\* from a Twin far from its start, and was rejected for continuity.
C3_Witness ==
    /\ ret.op = "execute_chunk"
    /\ ret.path = "rejected"
    /\ ret.result.reason = "Continuity Error"
    /\ ChunkOf(ret.plan_id, ret.chunk_id).ordinal >= 1
    /\ ~PreviousSucceeded(ChunkOf(ret.plan_id, ret.chunk_id))
    /\ StartsFar(ChunkOf(ret.plan_id, ret.chunk_id), ret.sim_state)

\* C4 (plan continuity): in every stored plan, each chunk's first waypoint
\* has the positions of the previous chunk's last waypoint, also when the
\* plan was built from a snapshot with no joints.
C4_PlanContinuity ==
    \A pid \in DOMAIN active_plans :
        LET chunks == active_plans[pid].chunks
        IN \A i \in 1..(Len(chunks) - 1) :
              chunks[i + 1].waypoints[1].positions = LastWaypoint(chunks[i]).positions

\* A plan of several chunks built from the snapshot with no joints is stored.
C4_Witness ==
    \E pid \in DOMAIN active_plans :
        /\ pid.state.joint_names = <<>>
        /\ Len(active_plans[pid].chunks) >= 3
        /\ Len(active_plans[pid].chunks[1].waypoints) = 1

\* C5 (plan cache idempotency): process_task on inputs whose plan_id is
\* stored returns the stored plan unchanged (ids, timestamps, created_at),
\* leaves active_plans as it is and does not run the planning stages.
C5_PlanCacheIdempotency ==
    [][ (Returns /\ ret'.op = "process_task" /\ ret'.pipeline = 1
           /\ ret'.plan.plan_id \in DOMAIN active_plans) =>
            /\ ret'.plan = active_plans[ret'.plan.plan_id]
            /\ active_plans' = active_plans
            /\ ~ret'.planned
      ]_vars

\* process_task returned a stored plan whose created_at is older than the
\* execution of one of its chunks: the clock had moved since it was planned.
C5_Witness ==
    /\ ret.op = "process_task"
    /\ ~ret.planned
    /\ \E e \in DOMAIN execution_results :
          /\ e[1] = ret.plan.plan_id
          /\ execution_results[e].status \in {"SUCCESS", "FAILED"}
          /\ execution_results[e].executed_at > ret.plan.created_at
          /\ execution_results[e].executed_at > ret.plan.chunks[1].timestamp

\* C6 (plan determinism): whenever two pipelines both hold a plan for the
\* same (instruction, perception, state) and both built it with the clock
\* frozen to the same value, the two plans are equal field by field (plan
\* id, chunk ids, waypoints, chunk timestamps, created_at), however far the
\* wall clock advanced between the two runs.
C6_PlanDeterminism ==
    \A pid \in DOMAIN active_plans \cap DOMAIN active_plans2 :
        (/\ active_plans[pid].created_at = FrozenAt
         /\ active_plans2[pid].created_at = FrozenAt)
        => /\ active_plans[pid] = active_plans2[pid]
           /\ \A i \in 1..Len(active_plans[pid].chunks) :
                 active_plans2[pid].chunks[i].timestamp = FrozenAt

\* Both pipelines planned the same inputs with the clock frozen while the
\* wall clock had advanced, and they also hold a plan for other inputs that
\* one of them built with the clock running, which differs between them.
C6_Witness ==
    /\ wall > 0
    /\ \E pid \in DOMAIN active_plans \cap DOMAIN active_plans2 :
          /\ active_plans[pid].created_at = FrozenAt
          /\ active_plans2[pid].created_at = FrozenAt
    /\ \E pid \in DOMAIN active_plans \cap DOMAIN active_plans2 :
          active_plans[pid] # active_plans2[pid]

\* C7 (not-found is an uncached ERROR): a call whose plan_id is not in
\* active_plans, or whose chunk_id is no chunk of that plan, returns status
\* ERROR with a "not found" reason, without verifying, and leaves
\* execution_results, the Twin and active_plans as they were; a call on a
\* pair whose plan and chunk exist never returns ERROR, also when the same
\* pair was answered with ERROR before the plan was created: it is served
\* from the cache or verified.
C7_NotFoundUncachedError ==
    [][ ExecReturns =>
          IF HasChunk(ret'.plan_id, ret'.chunk_id)
          THEN /\ ret'.result.status \in {"SUCCESS", "FAILED", "REJECTED"}
               /\ ret'.verified \/ ret'.path = "cache_hit"
          ELSE /\ ret'.result.status = "ERROR"
               /\ ret'.result.reason \in {"Plan not found.", "Chunk not found."}
               /\ ret'.result.reason = "Plan not found."
                     <=> ret'.plan_id \notin DOMAIN active_plans
               /\ ~ret'.verified
               /\ ~ret'.t6_called
               /\ execution_results' = execution_results
               /\ twin' = twin
               /\ active_plans' = active_plans
               /\ lock' = lock
      ]_vars

\* A pair that was answered with ERROR was submitted again after its plan
\* had been created, and went through the verifier and the adapter.
C7_Witness ==
    /\ ret.op = "execute_chunk"
    /\ ret.path = "executed"
    /\ ret.verified
    /\ errored = ExecId(ret.plan_id, ret.chunk_id)
    /\ errored \in DOMAIN execution_results

\* C8 (rejections are cached): a REJECTED record stays stored unchanged, and
\* every call on a pair whose stored record is REJECTED returns that record
\* without running the verifier or the adapter and without touching the Twin
\* or the cache, whatever state the Twin is in by then.
C8_RejectionsCached ==
    [][ /\ \A e \in DOMAIN execution_results :
              execution_results[e].status = "REJECTED"
              => /\ e \in DOMAIN execution_results'
                 /\ execution_results'[e] = execution_results[e]
        /\ (/\ ExecReturns
            /\ ExecId(ret'.plan_id, ret'.chunk_id) \in DOMAIN execution_results
            /\ execution_results[ExecId(ret'.plan_id, ret'.chunk_id)].status = "REJECTED")
           => /\ ret'.result = execution_results[ExecId(ret'.plan_id, ret'.chunk_id)]
              /\ ~ret'.verified
              /\ ~ret'.t6_called
              /\ execution_results' = execution_results
              /\ twin' = twin
              /\ lock' = NoCall
      ]_vars

\* A rejected pair was submitted again when the Twin had reached a state in
\* which its chunk passes the verifier, and REJECTED came back from the cache.
C8_Witness ==
    /\ ret.op = "execute_chunk"
    /\ ret.path = "cache_hit"
    /\ ret.result.status = "REJECTED"
    /\ VerifyTrajectory(ChunkOf(ret.plan_id, ret.chunk_id),
                        GetStateVector(twin), JointLimits).valid

\* A call that ran the adapter returns SUCCESS in SIM mode
SimSuccess ==
    /\ ExecReturns
    /\ ret'.path = "executed"
    /\ ret'.result.status = "SUCCESS"
    /\ mode = "SIM"

\* C9 (Twin advance on success): when a call that executed its chunk returns
\* SUCCESS in SIM mode, the Twin's joint positions at return are, joint by
\* joint, the positions of the chunk's last waypoint; the Twin's joints
\* change in no other step, and a call that verifies reads the Twin's joints
\* as they are when it verifies, so the next verification runs against
\* exactly that state.
C9_TwinAdvanceOnSuccess ==
    [][ /\ SimSuccess =>
              \A i \in 1..Len(JointNames) :
                  twin'.joints[JointNames[i]]
                      = LastWaypoint(ChunkOf(ret'.plan_id, ret'.chunk_id)).positions[i]
        /\ twin'.joints # twin.joints => SimSuccess
        /\ (lock = NoCall /\ lock' # NoCall) => lock'.sim_state.joints = twin.joints
        /\ (ExecReturns /\ ret'.verified)
              => ret'.sim_state.joints =
                    IF lock = NoCall THEN twin.joints ELSE lock.sim_state.joints
      ]_vars

\* A chunk succeeded in SIM mode, the Twin stands at its last waypoint away
\* from the origin, and the next call has verified against that state.
C9_Witness ==
    /\ mode = "SIM"
    /\ ret.op = "execute_chunk"
    /\ ret.path = "executed"
    /\ ret.result.status = "SUCCESS"
    /\ twin.joints["joint_1"] # 0
    /\ \A i \in 1..Len(JointNames) :
          twin.joints[JointNames[i]]
              = LastWaypoint(ChunkOf(ret.plan_id, ret.chunk_id)).positions[i]
    /\ lock # NoCall
    /\ lock.sim_state.joints = twin.joints
    /\ lock.chunk_id # ret.chunk_id

HolderStep ==
    \/ lock = NoCall /\ Returns
    \/ lock = NoCall /\ lock' # NoCall
    \/ /\ lock # NoCall
       /\ lock' = NoCall
       /\ ExecReturns
       /\ ret'.plan_id = lock.plan_id
       /\ ret'.chunk_id = lock.chunk_id

\* C11 as stated (mutual exclusion): while a call is suspended inside T6 no
\* other call enters the critical section or returns, and every step that
\* writes active_plans, execution_results or the Twin's state is a step of
\* the call that holds the mutex.
C11_Original ==
    [][ /\ lock # NoCall => (lock' = lock \/ HolderStep)
        /\ (lock # NoCall /\ Returns) => HolderStep
        /\ (\/ active_plans' # active_plans
            \/ execution_results' # execution_results
            \/ twin' # twin) => HolderStep
      ]_vars

\* The part of C11 that the pipeline's own methods satisfy: the calls are
\* serialized, and active_plans, execution_results, the Twin's joints and
\* its last_update are written only by the call that holds the mutex.
C11_PipelineWritesUnderMutex ==
    [][ /\ lock # NoCall => (lock' = lock \/ HolderStep)
        /\ (lock # NoCall /\ Returns) => HolderStep
        /\ (\/ active_plans' # active_plans
            \/ execution_results' # execution_results
            \/ twin'.joints # twin.joints
            \/ twin'.last_update # twin.last_update) => HolderStep
      ]_vars

\* The last verify_trajectory call with the payload and the base velocity of
\* its state replaced
ReverifiedAt(payload, base_vel) ==
    VerifyTrajectory(ret.trajectory,
                     [ret.current_state EXCEPT !.payload = payload, !.base_vel = base_vel],
                     JointLimits)

\* C12 (safety monotonicity): when verify_trajectory rejects a chunk at
\* payload p and base velocity v, it rejects the same chunk against the same
\* joint positions at every payload p' >= p and base velocity v' >= v.
C12_SafetyMonotonicity ==
    (ret.op = "verify_trajectory" /\ ~ret.report.valid)
    => \A p \in VerifyPayloads, v \in VerifyBaseVels :
          (p >= ret.current_state.payload /\ v >= ret.current_state.base_vel)
          => ~ReverifiedAt(p, v).valid

\* A chunk was rejected for stability at a base velocity of 1.5 m/s with no
\* payload, where lower velocities certify it and higher ones exist.
C12_Witness ==
    /\ ret.op = "verify_trajectory"
    /\ ~ret.report.valid
    /\ ret.report.reason = "ZMP Critical"
    /\ ret.current_state.base_vel = 15
    /\ ret.current_state.payload = 0
    /\ ReverifiedAt(0, 12).valid
    /\ \E p \in VerifyPayloads, v \in VerifyBaseVels :
          p > ret.current_state.payload /\ v > ret.current_state.base_vel

\* C13 (adapter failures are FAILED, cached and never retried): a call whose
\* adapter result has success = false returns FAILED carrying that result,
\* stores the record under its (plan_id, chunk_id) and leaves the Twin's
\* joints where they were; a stored FAILED record is never changed, and
\* every later call on the pair returns it without invoking the adapter.
C13_AdapterFailureCached ==
    [][ /\ (ExecReturns /\ ret'.path = "executed" /\ ~ret'.result.ros_result.success)
            => /\ ret'.result.status = "FAILED"
               /\ ret'.result.ros_result = ExecuteHardware(FALSE)
               /\ ExecId(ret'.plan_id, ret'.chunk_id) \notin DOMAIN execution_results
               /\ execution_results'[ExecId(ret'.plan_id, ret'.chunk_id)] = ret'.result
               /\ twin'.joints = twin.joints
        /\ (ExecReturns /\ ret'.result.status = "FAILED" /\ ret'.path = "executed")
            => ~ret'.result.ros_result.success
        /\ \A e \in DOMAIN execution_results :
              execution_results[e].status = "FAILED"
              => /\ e \in DOMAIN execution_results'
                 /\ execution_results'[e] = execution_results[e]
        /\ (/\ ExecReturns
            /\ ExecId(ret'.plan_id, ret'.chunk_id) \in DOMAIN execution_results
            /\ execution_results[ExecId(ret'.plan_id, ret'.chunk_id)].status = "FAILED")
            => /\ ret'.result = execution_results[ExecId(ret'.plan_id, ret'.chunk_id)]
               /\ ~ret'.t6_called
               /\ ~ret'.verified
               /\ twin' = twin
               /\ lock' = NoCall
      ]_vars

\* A pair whose adapter call timed out was submitted again and got the
\* stored FAILED record, with the Twin still at the pose of construction.
C13_Witness ==
    /\ ret.op = "execute_chunk"
    /\ ret.path = "cache_hit"
    /\ ret.result.status = "FAILED"
    /\ ret.result.ros_result.error_string = "Action Server Timeout"
    /\ twin.joints = TwinInit.joints

\* C14 as stated: stabilize drives the robot to the all-zero home pose
\* through the adapter without touching active_plans or execution_results;
\* when it reports STABILIZED every Twin joint is 0, and otherwise the Twin
\* is as it was.
C14_Original ==
    [][ (Returns /\ ret'.op = "stabilize") =>
            /\ ret'.t6_called
            /\ active_plans' = active_plans
            /\ execution_results' = execution_results
            /\ IF ret'.result = "STABILIZED"
               THEN \A n \in DOMAIN twin'.joints : twin'.joints[n] = 0
               ELSE twin' = twin
      ]_vars

\* The payload of a stored chunk: its model_dump() when the digest was taken,
\* before the pipeline filled in the ids and the timestamp
Payload(chunk) ==
    [chunk EXCEPT !.chunk_id = "tmp", !.plan_id = "tmp", !.ordinal = 0,
                  !.timestamp = NoTime]

StoredChunks == UNION {Range(active_plans[pid].chunks) : pid \in DOMAIN active_plans}

\* C15 (id stability): two stored chunks have the same chunk_id iff they
\* agree on plan_id, ordinal and payload; the chunk_ids of a plan are
\* pairwise distinct, also for chunks with identical payload; a chunk's
\* payload at another chunk's position of its plan would get another id; and
\* each chunk_id of a plan resolves to exactly one chunk, the one that a
\* verifying execute_chunk call used.
C15_IdStability ==
    /\ \A c, d \in StoredChunks :
          c.chunk_id = d.chunk_id
          <=> /\ c.plan_id = d.plan_id
              /\ c.ordinal = d.ordinal
              /\ Payload(c) = Payload(d)
    /\ \A pid \in DOMAIN active_plans :
          LET plan == active_plans[pid]
          IN \A i, j \in 1..Len(plan.chunks) :
                /\ plan.chunks[i].plan_id = pid
                /\ plan.chunks[i].ordinal = i - 1
                /\ i # j =>
                      /\ plan.chunks[i].chunk_id # plan.chunks[j].chunk_id
                      /\ ChunkId(pid, j - 1, Payload(plan.chunks[i])) # plan.chunks[i].chunk_id
                /\ FindChunk(plan, plan.chunks[i].chunk_id) = i
                /\ Cardinality({c \in Range(plan.chunks) :
                                   c.chunk_id = plan.chunks[i].chunk_id}) = 1
    /\ (ret.op = "execute_chunk" /\ ret.verified)
          => Cardinality({c \in Range(active_plans[ret.plan_id].chunks) :
                             c.chunk_id = ret.chunk_id}) = 1

\* A plan holds two chunks with the same payload at different positions, and
\* an execute_chunk call on the id of the later one went to the verifier.
C15_Witness ==
    /\ ret.op = "execute_chunk"
    /\ ret.verified
    /\ \E c, d \in Range(active_plans[ret.plan_id].chunks) :
          /\ d.chunk_id = ret.chunk_id
          /\ c.ordinal < d.ordinal
          /\ Payload(c) = Payload(d)

\* The phrases that occur in the text of a report's reason, of those that the
\* properties below ask about
ReasonPhrases(reason) ==
    CASE reason = "Continuity Error" -> {"Continuity Error", "Continuity"}
      [] reason = "Waypoint joint names mismatch" -> {"joint names mismatch"}
      [] reason = "Joint limit violation" -> {"limit violation"}
      [] reason = "Force Limit Exceeded" -> {"Force Limit Exceeded", "Force"}
      [] reason = "ZMP Critical" -> {"ZMP Critical", "ZMP", "Unstable"}
      [] reason = "Trajectory within Safe Operating Envelope" -> {"Safe"}
      [] OTHER -> {}

\* The checks of verify_trajectory other than the stability check all pass
OtherThanStabilityPass(trajectory, current_state) ==
    /\ ContinuityBreaks(trajectory, current_state.joints) = {}
    /\ BadWaypoints(trajectory, JointLimits) = {}
    /\ ~ForceExceeded(trajectory)

\* clamp(1.0 - 0.3*|base_vel| - 0.05*payload*0.5, 0, 1), in 1/10000
StatedZmpScore(base_vel, payload) ==
    Max(0, Min(10000, 10000 - 300 * Abs(base_vel) - 25 * payload))

\* C16 as stated: with zmp_score = clamp(1.0 - 0.3*|base_vel| -
\* 0.05*payload*0.5, 0, 1), a trajectory that passes the other checks fails
\* exactly when zmp_score < 0.4, and then with a reason containing
\* 'Stability'.
C16_Original ==
    (/\ ret.op = "verify_trajectory"
     /\ OtherThanStabilityPass(ret.trajectory, ret.current_state))
    => /\ ret.report.valid
            <=> StatedZmpScore(ret.current_state.base_vel,
                               ret.current_state.payload) >= 4000
       /\ ~ret.report.valid => "Stability" \in ReasonPhrases(ret.report.reason)

\* The continuity check and the waypoint loop of verify_trajectory pass
ReachesForceCheck(trajectory, current_state) ==
    /\ ContinuityBreaks(trajectory, current_state.joints) = {}
    /\ BadWaypoints(trajectory, JointLimits) = {}

C18_Original ==
    (ret.op = "execute_trajectory" /\ mode = "HARDWARE") =>
        /\ ret.result.success =>
              /\ ret.server_ok
              /\ ret.goal_sent
              /\ ret.controller = "succeeds"
        /\ (ret.server_ok /\ ret.controller \in {"rejects", "cancels"})
              => ~ret.result.success
        /\ (ret.server_ok /\ ret.controller = "cancels")
              => ret.result.error_string = "Goal Cancelled"
        /\ ~ret.server_ok =>
              /\ ~ret.result.success
              /\ ret.result.error_string = "Action Server Timeout"

\* The subtask types of a decomposition, in order
Types(subtasks) == [i \in 1..Len(subtasks) |-> subtasks[i].type]

\* The expansion of keyword k if it occurs in the instruction
ExpansionIn(instr, k) == IF Contains(instr, k) THEN ActionMap(k) ELSE <<>>

\* C19 (task decomposition): the subtasks of decompose_task are the
\* expansions of the keywords that occur in the lowercased instruction, in
\* the order pick, place, move of the table, wherever the keywords stand in
\* the text; there is exactly one idle subtask iff no keyword occurs, and no
\* idle subtask otherwise; the result is never empty; and 'pick up the apple'
\* yields exactly walk_to, scan_workspace, grasp_approach, grasp_close, lift.
C19_Decomposition ==
    ret.op = "decompose_task" =>
        LET types == Types(ret.subtasks)
            occurs == {k \in {"pick", "place", "move"} : Contains(ret.instruction, k)}
        IN /\ types # <<>>
           /\ occurs # {} =>
                 /\ types = ExpansionIn(ret.instruction, "pick")
                               \o ExpansionIn(ret.instruction, "place")
                               \o ExpansionIn(ret.instruction, "move")
                 /\ "idle" \notin Range(types)
           /\ occurs = {} <=> types = <<"idle">>
           /\ ret.instruction = <<"pick", "up", "the", "apple">>
                 => types = <<"walk_to", "scan_workspace", "grasp_approach",
                              "grasp_close", "lift">>

\* An instruction that names move (inside "remove") before Place before pick
\* was decomposed into the expansions of pick, place and move, in that order.
C19_Witness ==
    /\ ret.op = "decompose_task"
    /\ ret.instruction = <<"remove", "Place", "pick">>
    /\ Len(ret.subtasks) = 12
    /\ ret.subtasks[1].type = "walk_to"
    /\ ret.subtasks[12].type = "release"

\* Some waypoint of the trajectory has other names than the trajectory
SomeNamesMismatch(trajectory) ==
    \E i \in 1..Len(trajectory.waypoints) : NamesMismatch(trajectory, i)

\* Some waypoint of the trajectory has a position outside its joint's limits
SomeLimitViolated(trajectory) ==
    \E i \in 1..Len(trajectory.waypoints) : LimitViolated(trajectory, i, JointLimits)

\* C20 as stated: the checks run in the order continuity, waypoint names
\* (all waypoints), joint limits, stability, force, and the first failure in
\* that order is the one reported: a names mismatch on any waypoint comes
\* before every limit violation, a stability failure before a force
\* failure, and a trajectory that passes is valid with 'Certified Safe'.
C20_Original ==
    (/\ ret.op = "verify_trajectory"
     /\ ContinuityBreaks(ret.trajectory, ret.current_state.joints) = {})
    => /\ SomeNamesMismatch(ret.trajectory)
            => ret.report.reason = "Waypoint joint names mismatch"
       /\ (/\ ~SomeNamesMismatch(ret.trajectory)
           /\ ~SomeLimitViolated(ret.trajectory)
           /\ ZmpCritical(ret.current_state)
           /\ ForceExceeded(ret.trajectory))
            => ret.report.reason = "ZMP Critical"
       /\ ret.report.valid => "Certified Safe" \in ReasonPhrases(ret.report.reason)

\* C20 (amended): verify_trajectory reports the first failure in the order
\* continuity, then waypoint by waypoint the names and then the limits of
\* that waypoint, then force, then stability; a chunk that violates both the
\* force check and the stability check is reported with the force reason;
\* and the result is valid, with reason 'Trajectory within Safe Operating
\* Envelope', exactly when no check fails.
C20_CheckOrder ==
    ret.op = "verify_trajectory" =>
        LET trajectory == ret.trajectory
            current_state == ret.current_state
            reason == ret.report.reason
            continuous == ContinuityBreaks(trajectory, current_state.joints) = {}
            bad == BadWaypoints(trajectory, JointLimits)
        IN /\ reason = "Continuity Error" <=> ~continuous
           /\ (continuous /\ bad # {}) =>
                 /\ reason \in {"Waypoint joint names mismatch", "Joint limit violation"}
                 /\ reason = "Waypoint joint names mismatch"
                       <=> NamesMismatch(trajectory, SetMin(bad))
           /\ (continuous /\ bad = {} /\ ForceExceeded(trajectory))
                 => reason = "Force Limit Exceeded"
           /\ reason = "ZMP Critical"
                 <=> /\ continuous
                     /\ bad = {}
                     /\ ~ForceExceeded(trajectory)
                     /\ ZmpCritical(current_state)
           /\ ret.report.valid
                 <=> /\ continuous
                     /\ bad = {}
                     /\ ~ForceExceeded(trajectory)
                     /\ ~ZmpCritical(current_state)
           /\ ret.report.valid
                 <=> reason = "Trajectory within Safe Operating Envelope"

\* A trajectory whose first waypoint is outside a joint limit and whose
\* second waypoint has other names was reported with the limit violation,
\* on a robot too fast to be stable and with a force above the limit.
C20_Witness ==
    /\ ret.op = "verify_trajectory"
    /\ ret.report.reason = "Joint limit violation"
    /\ LimitViolated(ret.trajectory, 1, JointLimits)
    /\ NamesMismatch(ret.trajectory, 2)
    /\ ForceExceeded(ret.trajectory)
    /\ ZmpCritical(ret.current_state)

\* C21 as stated: verify_trajectory fails with a Continuity Error exactly
\* when some joint of the trajectory starts more than 0.1 rad from its value
\* in the current state; a difference of exactly 0.1 rad passes.
C21_Original ==
    ret.op = "verify_trajectory" =>
        (ret.report.reason = "Continuity Error"
         <=> \E idx \in 1..Len(ret.trajectory.joint_names) :
                Abs(ret.current_state.joints[ret.trajectory.joint_names[idx]]
                    - ret.trajectory.waypoints[1].positions[idx]) > 100000)

\* Some position of some waypoint is below the minimum or above the maximum
\* of its joint
OutsideLimits(trajectory) ==
    \E i \in 1..Len(trajectory.waypoints) :
        \E j \in 1..Len(trajectory.waypoints[i].positions) :
            \/ trajectory.waypoints[i].positions[j] < JointLimits[trajectory.joint_names[j]][1]
            \/ trajectory.waypoints[i].positions[j] > JointLimits[trajectory.joint_names[j]][2]

\* C22 (joint limits are a closed interval checked on every waypoint): a
\* chunk that passes continuity and whose waypoints all have the
\* trajectory's names fails with a joint limit violation iff some position
\* of some waypoint, first or last, lies outside [min, max] of its joint;
\* a position equal to a bound does not fail the check.
C22_ClosedLimits ==
    (/\ ret.op = "verify_trajectory"
     /\ ContinuityBreaks(ret.trajectory, ret.current_state.joints) = {}
     /\ ~SomeNamesMismatch(ret.trajectory))
    => /\ ret.report.reason = "Joint limit violation" <=> OutsideLimits(ret.trajectory)
       /\ OutsideLimits(ret.trajectory) => ~ret.report.valid

\* A chunk whose first waypoint has joint_2 exactly at its upper limit of
\* 2.0 rad was verified from a state within tolerance of it and is valid.
C22_Witness ==
    /\ ret.op = "verify_trajectory"
    /\ ret.trajectory.waypoints[1].positions[2] = 2000000
    /\ ret.report.valid

\* C23 as stated: in SIM mode the adapter returns with no suspension point,
\* so no execute_chunk call is ever left suspended inside the adapter, and
\* the Twin that a call updates after the adapter is still in the state
\* that the call verified against.
C23_Original ==
    [][ mode = "SIM" =>
          /\ lock' = NoCall
          /\ (ExecReturns /\ ret'.t6_called) =>
                /\ ret'.sim_state.joints = twin.joints
                /\ ret'.sim_state.payload = twin.payload
                /\ ret'.sim_state.base_vel = twin.base_vel
      ]_vars

\* max(1, floor(d / (50/30))) for a duration d in ms: the largest n with
\* n * (50/30) s <= d, and 1 if that is 0
StatedChunkCount(d) ==
    Max(1, CHOOSE n \in 0..d : n * 50000 <= d * 30 /\ d * 30 < (n + 1) * 50000)

\* The subtask types of a decomposition, each repeated once per chunk
RECURSIVE ChunkSubtasks(_)
ChunkSubtasks(subtasks) ==
    IF subtasks = <<>> THEN <<>>
    ELSE [i \in 1..StatedChunkCount(Head(subtasks).estimated_duration) |->
             Head(subtasks).type]
         \o ChunkSubtasks(Tail(subtasks))

\* C24 (chunk count and ordinals): in every stored plan each subtask of the
\* instruction has max(1, floor(estimated_duration / (50/30))) chunks, an
\* idle subtask of duration 0 exactly one, so the plan has at least as many
\* chunks as subtasks; the chunks follow the subtasks in order (chunk i
\* comes from the i-th planned chunk and has its target), and their
\* ordinals are 0..n-1 without gap or repeat.
C24_ChunkCountAndOrdinals ==
    \A pid \in DOMAIN active_plans :
        LET chunks == active_plans[pid].chunks
            subtasks == DecomposeTask(pid.instruction)
            planned == PlanActionChunks(pid.instruction, subtasks)
            owners == ChunkSubtasks(subtasks)
        IN /\ Len(chunks) = Len(owners)
           /\ Len(chunks) >= Len(subtasks)
           /\ Len(planned) = Len(chunks)
           /\ \A i \in 1..Len(chunks) :
                 /\ chunks[i].ordinal = i - 1
                 /\ planned[i].id = i - 1
                 /\ planned[i].subtask_id = owners[i]
                 /\ LastWaypoint(chunks[i]).positions = SolveIK(planned[i].latent)
           /\ \A k \in 1..Len(subtasks) :
                 subtasks[k].type = "idle" =>
                     Cardinality({i \in 1..Len(owners) : owners[i] = "idle"}) = 1

\* Two plans are stored: one of a single idle subtask of duration 0, with
\* exactly one chunk, and one with more chunks than subtasks.
C24_Witness ==
    /\ \E pid \in DOMAIN active_plans :
          /\ Types(DecomposeTask(pid.instruction)) = <<"idle">>
          /\ Len(active_plans[pid].chunks) = 1
    /\ \E pid \in DOMAIN active_plans :
          Len(active_plans[pid].chunks) > Len(DecomposeTask(pid.instruction))

\* C25 as stated: constructing a RobotStateSnapshot or a JointState whose
\* positions list has another length than its names list (an empty
\* positions list included), or a JointState with empty names, fails with a
\* validation error.
C25_Original ==
    /\ ret.op = "RobotStateSnapshot" =>
          (Len(ret.joint_names) # Len(ret.joint_positions) => ret.raised)
    /\ ret.op = "JointState" =>
          ((Len(ret.names) # Len(ret.positions) \/ ret.names = <<>>) => ret.raised)

\* A step in which a waiting call is granted the mutex
Admitted == Len(waiters'.pending) < Len(waiters.pending)

\* C26 as stated: an execute_chunk call issued while another call on the
\* same pair is in flight returns that pair's stored record from the cache,
\* without the verifier or the adapter running and without the Twin moving.
C26_Original ==
    [][ (/\ Admitted
         /\ waiters'.admitted.op = "execute_chunk"
         /\ waiters'.admitted.concurrent)
        => /\ ExecReturns
           /\ ret'.chunk_id = waiters'.admitted.chunk_id
           /\ ret'.path = "cache_hit"
           /\ ExecId(ret'.plan_id, ret'.chunk_id) \in DOMAIN execution_results
           /\ ret'.result = execution_results[ExecId(ret'.plan_id, ret'.chunk_id)]
           /\ ~ret'.verified
           /\ ~ret'.t6_called
           /\ twin' = twin
      ]_vars

\* C26 (amended): an execute_chunk call issued on a chunk of a stored plan
\* while another call on the same pair is in flight waits for the mutex and
\* then returns the pair's stored record from the cache, without the
\* verifier or the adapter running and without the Twin moving; the
\* verifier and the adapter run only for a pair without a record, and the
\* Twin's joints move only when such a call completes.
C26_ConcurrentDuplicates ==
    [][ /\ (/\ Admitted
            /\ waiters'.admitted.op = "execute_chunk"
            /\ waiters'.admitted.concurrent
            /\ waiters'.admitted.known)
           => /\ lock = NoCall
              /\ ExecReturns
              /\ ret'.chunk_id = waiters'.admitted.chunk_id
              /\ ret'.path = "cache_hit"
              /\ ExecId(ret'.plan_id, ret'.chunk_id) \in DOMAIN execution_results
              /\ ret'.result = execution_results[ExecId(ret'.plan_id, ret'.chunk_id)]
              /\ ~ret'.verified
              /\ ~ret'.t6_called
              /\ twin' = twin
              /\ execution_results' = execution_results
              /\ lock' = NoCall
        /\ (lock = NoCall /\ lock' # NoCall)
           => ExecId(lock'.plan_id, lock'.chunk_id) \notin DOMAIN execution_results
        /\ (ExecReturns /\ ret'.verified)
           => ExecId(ret'.plan_id, ret'.chunk_id) \notin DOMAIN execution_results
        /\ twin'.joints # twin.joints
           => /\ ExecReturns
              /\ ret'.t6_called
              /\ ExecId(ret'.plan_id, ret'.chunk_id) \notin DOMAIN execution_results
      ]_vars

\* A call issued while a call on the same chunk was suspended in the adapter
\* has been admitted after it and got its SUCCESS record from the cache.
C26_Witness ==
    /\ waiters.admitted.op = "execute_chunk"
    /\ waiters.admitted.concurrent
    /\ waiters.admitted.known
    /\ ret.op = "execute_chunk"
    /\ ret.chunk_id = waiters.admitted.chunk_id
    /\ ret.path = "cache_hit"
    /\ ret.result.status = "SUCCESS"
    /\ mode = "SIM"

\* The records with status SUCCESS are exactly those of the chunks of plan
\* pid before ordinal k: the plan has been executed in order up to chunk k
\* and nothing else has moved the Twin's joints
ExecutedInOrderUpTo(pid, k) ==
    /\ \A i \in 1..k :
          LET e == ExecId(pid, active_plans[pid].chunks[i].chunk_id)
          IN /\ e \in DOMAIN execution_results
             /\ execution_results[e].status = "SUCCESS"
    /\ \A e \in DOMAIN execution_results :
          execution_results[e].status = "SUCCESS"
          => \E i \in 1..k : e = ExecId(pid, active_plans[pid].chunks[i].chunk_id)

\* The joints of a state dict are at the positions of a waypoint
AtWaypoint(joints, waypoint) ==
    \A i \in 1..Len(waypoint.names) : joints[waypoint.names[i]] = waypoint.positions[i]

\* C27 (in-order execution never breaks continuity): in SIM mode, when a
\* plan built from a snapshot equal to the Twin's joints has been executed
\* in ordinal order up to some chunk, every earlier chunk with SUCCESS and
\* nothing else having moved the joints, the Twin is at the first waypoint
\* of that chunk when the chunk is verified, and the chunk is not rejected
\* with a continuity error.
C27_InOrderContinuity ==
    [][ (/\ mode = "SIM"
         /\ lock = NoCall
         /\ \/ ExecReturns /\ ret'.verified
            \/ lock' # NoCall)
        => LET call == IF lock' # NoCall THEN lock' ELSE ret'
               pid == call.plan_id
               chunk == ChunkOf(pid, call.chunk_id)
           IN (/\ pid.state.joint_positions = [i \in 1..7 |-> TwinInit.joints[JointNames[i]]]
               /\ pid.state.joint_names = JointNames
               /\ ExecutedInOrderUpTo(pid, chunk.ordinal))
              => /\ AtWaypoint(twin.joints, chunk.waypoints[1])
                 /\ AtWaypoint(call.sim_state.joints, chunk.waypoints[1])
                 /\ call.report.reason # "Continuity Error"
      ]_vars

\* The last chunk of a three-chunk plan was executed after its two
\* predecessors, in order, and succeeded from a Twin away from the zero pose.
C27_Witness ==
    /\ mode = "SIM"
    /\ ret.op = "execute_chunk"
    /\ ret.path = "executed"
    /\ ret.result.status = "SUCCESS"
    /\ ChunkOf(ret.plan_id, ret.chunk_id).ordinal = 2
    /\ ExecutedInOrderUpTo(ret.plan_id, 3)
    /\ ret.sim_state.joints # TwinInit.joints

\* A joint position lies within the closed interval of the joint's limits
WithinLimits(joints) ==
    \A n \in DOMAIN joints :
        /\ JointLimits[n][1] <= joints[n]
        /\ joints[n] <= JointLimits[n][2]

\* C28 (Twin stays within joint limits): starting from the all-zero Twin,
\* after any sequence of process_task and execute_chunk calls every joint
\* position of the Twin, and of every state vector a chunk was verified
\* against, lies within that joint's configured limits.
C28_TwinWithinLimits ==
    /\ DOMAIN twin.joints = Range(JointNames)
    /\ WithinLimits(twin.joints)
    /\ (ret.op = "execute_chunk" /\ ret.verified) => WithinLimits(ret.sim_state.joints)

\* Two chunks have moved the Twin, the second one away from where the
\* first one left it.
C28_Witness ==
    /\ ret.op = "execute_chunk"
    /\ ret.path = "executed"
    /\ ret.result.status = "SUCCESS"
    /\ twin.joints # TwinInit.joints
    /\ twin.joints # ret.sim_state.joints
    /\ ret.sim_state.joints # TwinInit.joints

\* Every entry of a cache is in the cache's next value, unchanged
Kept(cache, cacheNext) ==
    \A k \in DOMAIN cache : k \in DOMAIN cacheNext /\ cacheNext[k] = cache[k]

\* Every execution record belongs to a chunk of a stored plan and is final
RecordsWellFormed ==
    \A e \in DOMAIN execution_results :
        /\ HasChunk(e[1], e[2])
        /\ execution_results[e].status \in {"SUCCESS", "FAILED", "REJECTED"}

\* C29 (caches are write-once and well-formed): in every reachable state each
\* execution_results entry belongs to a (plan_id, chunk_id) whose plan is in
\* active_plans and whose chunk is in that plan, and has status SUCCESS,
\* FAILED or REJECTED, never ERROR; an entry of execution_results or of
\* active_plans, once written, is never overwritten or removed.
C29_WriteOnceCaches ==
    [][ /\ RecordsWellFormed'
        /\ Kept(execution_results, execution_results')
        /\ Kept(active_plans, active_plans')
        /\ Kept(active_plans2, active_plans2')
      ]_vars

\* A call on an unknown pair was answered ERROR and left no record, a chunk
\* was executed, and a repeated call on it was answered from the cache.
C29_Witness ==
    /\ errored # NoExec
    /\ errored \notin DOMAIN execution_results
    /\ ret.op = "execute_chunk"
    /\ ret.path = "cache_hit"
    /\ ExecId(ret.plan_id, ret.chunk_id) \in DOMAIN execution_results
    /\ RecordsWellFormed

\* C30 (no deadlock): every process_task and execute_chunk call releases the
\* pipeline mutex on every path (plan cache hit, execution cache hit, ERROR,
\* REJECTED, SUCCESS, FAILED): a return leaves the mutex free.  Given that
\* the adapter call returns and that the mutex is granted to its waiters in
\* turn (a grant is the admission of the first waiter, whose call then
\* runs), the k-th call issued is eventually admitted and eventually
\* returns, for every k.
C30_NoDeadlock ==
    /\ [][Returns => lock' = NoCall]_vars
    /\ [][Grant => (Returns \/ lock' # NoCall)]_vars
    /\ []((waiters.pending # <<>> /\ lock = NoCall) => ret.seq < MaxCalls)
    /\ \A k \in 1..MaxCalls :
          /\ (Issued >= k) ~> (ret.seq + (IF lock # NoCall THEN 1 ELSE 0) >= k)
          /\ (Issued >= k) ~> (ret.seq >= k)

\* Every call has returned and the mutex is free; the last one was issued
\* while a call on the same chunk was queued before it or held the mutex in
\* the simulated adapter.
C30_Witness ==
    /\ mode = "SIM"
    /\ ret.seq = MaxCalls
    /\ lock = NoCall
    /\ waiters.pending = <<>>
    /\ waiters.admitted.op = "execute_chunk"
    /\ waiters.admitted.concurrent

====
